---- MODULE Spec2Model ----
(***************************************************************************)
(* Model of the trend-detection core of puwka/trand:                       *)
(*   - services/deduplicator.py      deduplicate, _is_repost, cosine       *)
(*   - services/viral_filters.py     age_aware_filter(_batch)              *)
(*   - services/viral_pipeline.py    run_viral_pipeline                    *)
(*   - services/quality_gate.py      apply_quality_gate                    *)
(*   - services/collector_service.py fetch_from_sources                    *)
(*   - worker.py                     run_worker_cycle / _run_worker_cycle  *)
(*                                                                         *)
(* Numbers: a penalty is an integer number of 1/10000 (0.25 = 2500), a     *)
(* viral score an integer number of 1/100 (1.5 = 150); a penalized score   *)
(* is their product (unit 1/1000000).  Ages are tenths of an hour.         *)
(***************************************************************************)
EXTENDS Integers, Sequences, FiniteSets, TLC

VARIABLES
    dd_videos,      \* deduplicate: the input list
    dd_result,      \* deduplicate: the list returned for dd_videos
    dd_again,       \* deduplicate: the list returned for dd_result
    dd_pc,          \* "in" | "once" | "twice"
    pl_videos,      \* run_viral_pipeline: the input list
    pl_candidates,  \* (video, penalty) candidates of the age-aware filter
    pl_rejected,    \* number of videos the filter originally rejected
    pl_scored,      \* candidates with penalized score, sorted
    pl_verdict,     \* what the quality classifier discards in this run
    pl_result,      \* PipelineResult.videos
    pl_pc,          \* "in" | "filtered" | "scored" | "done"
    topics,         \* store: keywords of the rows of table topics
    sources,        \* store: rows of table sources
    dry_run,        \* ingestion_settings.DRY_RUN
    feed,           \* what each platform's adapter returns when it succeeds
    videos_table,   \* store: rows of table videos
    parsing_in_progress,    \* worker._parsing_in_progress
    pc,             \* per invocation of run_worker_cycle: where it is
    stats,          \* per invocation: the stats dict
    by_platform,    \* per invocation: platform groups, in dict order
    fetch_i,        \* per invocation: next group to fetch
    all_videos,     \* per invocation: (source, video) pairs collected
    gated,          \* per invocation: the GateResults to store
    gate_i,         \* per invocation: next GateResult to store
    hist,           \* per invocation: what happened in the current cycle
    prev,           \* per invocation: summary of its previous cycle
    calls,          \* per invocation: cycles started so far
    g_items,        \* apply_quality_gate: the input list of (video, score)
    g_result,       \* apply_quality_gate: the list of GateResult returned
    g_pc,           \* "in" | "done"
    ad_kind,        \* adapter whose fetch_from_sources is called
    ad_channels,    \* per channel of channel_list: videos the platform has
    ad_failing,     \* channels whose fetch fails on every attempt
    ad_result,      \* number of videos fetch_from_sources returned
    ad_pc,          \* "in" | "done" | "raised"
    rt_retry_count, \* _safe_fetch: the adapter's retry_count
    rt_delay,       \* ingestion_settings.RETRY_DELAY_SECONDS
    rt_outcomes,    \* per call of the fetcher: -1 failed, or videos returned
    rt_sleeps,      \* the delays slept so far, in seconds
    rt_result,      \* number of videos _safe_fetch returned, -1 before
    rt_pc           \* "idle" | "try" | "raise" | "returned"

dedupVars == <<dd_videos, dd_result, dd_again, dd_pc>>

pipeVars == <<pl_videos, pl_candidates, pl_rejected, pl_scored, pl_verdict,
              pl_result, pl_pc>>

configVars == <<topics, sources, dry_run, feed>>

cycleVars == <<pc, stats, by_platform, fetch_i, all_videos, gated, gate_i,
               hist, prev, calls>>

workerVars == <<configVars, videos_table, parsing_in_progress, cycleVars>>

gateVars == <<g_items, g_result, g_pc>>

adapterVars == <<ad_kind, ad_channels, ad_failing, ad_result, ad_pc>>

retryVars == <<rt_retry_count, rt_delay, rt_outcomes, rt_sleeps, rt_result, rt_pc>>

vars == <<dedupVars, pipeVars, workerVars, gateVars, adapterVars, retryVars>>

----------------------------------------------------------------------------
(* Bounds of the model *)

MaxLen == 3         \* longest list given to deduplicate
MaxCycles == 2      \* cycles the scheduler's job runs
MaxCalls == 1       \* parse-now requests served
MaxOverlap == 1     \* cycles the scheduler's job runs beside those requests
MaxPeerRows == 1    \* rows another instance of the service stores

\* The longest channel_list given to an adapter; adapters read ten
\* channels.
MaxChannels == 11

\* The largest retry_count of an adapter.
MaxRetry == 4

----------------------------------------------------------------------------
(* Video (models/video_model.py) *)

Platforms == {"tiktok", "reels", "youtube"}

\* Words that occur in titles, and str.lower() on them.
Words == {"cat", "Cat", "dance", "fail"}

Lower(w) == IF w = "Cat" THEN "cat" ELSE w

\* A Video: the fields the core reads.  publish_age is the age in tenths of
\* an hour at the time of the cycle, or -1 when publish_time is absent.
\* base_score is the viral_score compute_viral_score returns for the video.
Video(platform, video_id, sound_id, title, duration, views, likes, comments, shares, publish_age, comments_disabled, base_score) ==
    [platform |-> platform, video_id |-> video_id, sound_id |-> sound_id,
     title |-> title, duration |-> duration, views |-> views,
     likes |-> likes, comments |-> comments, shares |-> shares,
     publish_age |-> publish_age, comments_disabled |-> comments_disabled,
     base_score |-> base_score]

\* Video.__eq__: identity is (platform, video_id).
VideoKey(v) == <<v.platform, v.video_id>>

----------------------------------------------------------------------------
(* deduplicator.py *)

\* set(a.lower().split())
WordSet(title) == {Lower(title[i]) : i \in 1..Len(title)}

\* _cosine_similarity(a, b) >= num/den, for 0 < num/den:
\*   |wa & wb| / sqrt(|wa| * |wb|) >= num/den; 0.0 when a side is empty.
CosineAtLeast(a, b, num, den) ==
    LET wa == WordSet(a)
        wb == WordSet(b)
        inter == Cardinality(wa \cap wb)
    IN  IF wa = {} \/ wb = {}
        THEN FALSE
        ELSE den * den * inter * inter >= num * num * Cardinality(wa) * Cardinality(wb)

AbsDiff(x, y) == IF x >= y THEN x - y ELSE y - x

\* A duration tolerance of 1 second instead of 2.
IsRepostTightDuration(v, existing) ==
    \/ v.platform = existing.platform /\ v.video_id = existing.video_id
    \/ v.sound_id # "" /\ v.sound_id = existing.sound_id /\ v.platform = "tiktok"
    \/ CosineAtLeast(v.title, existing.title, 4, 5)
    \/ AbsDiff(v.duration, existing.duration) <= 1
         /\ CosineAtLeast(v.title, existing.title, 1, 2)

\* _is_repost(v, existing)
IsRepost(v, existing) ==
    \/ v.platform = existing.platform /\ v.video_id = existing.video_id
    \/ v.sound_id # "" /\ v.sound_id = existing.sound_id /\ v.platform = "tiktok"
    \/ CosineAtLeast(v.title, existing.title, 4, 5)
    \/ AbsDiff(v.duration, existing.duration) <= 2
         /\ CosineAtLeast(v.title, existing.title, 1, 2)

\* The videos of `videos` an incoming videos[i] is compared with, were the
\* loop to look only at the video seen just before it.
CompareWithPrevious(videos, i, result) ==
    IF i = 1 THEN <<>> ELSE <<videos[i - 1]>>

\* `for r in result`: the incoming video is compared with every video
\* emitted so far.
CompareWith(videos, i, result) == result

\* The loop of deduplicate from position i on.
RECURSIVE DedupLoop(_, _, _, _, _)
DedupLoop(videos, i, seen_ids, seen_sounds, result) ==
    IF i > Len(videos) THEN result
    ELSE
      LET v == videos[i]
          key == <<v.platform, v.video_id>>
          has_sound == v.sound_id # "" /\ v.platform = "tiktok"
          sound_key == <<v.platform, v.sound_id>>
          cmp == CompareWith(videos, i, result)
      IN  IF key \in seen_ids
          THEN DedupLoop(videos, i + 1, seen_ids, seen_sounds, result)
          ELSE IF has_sound /\ sound_key \in seen_sounds
          THEN DedupLoop(videos, i + 1, seen_ids \cup {key}, seen_sounds, result)
          ELSE
            LET sounds2 == IF has_sound THEN seen_sounds \cup {sound_key}
                           ELSE seen_sounds
                is_dupe == \E k \in 1..Len(cmp) : IsRepost(v, cmp[k])
            IN  IF is_dupe
                THEN DedupLoop(videos, i + 1, seen_ids \cup {key}, sounds2, result)
                ELSE DedupLoop(videos, i + 1, seen_ids \cup {key}, sounds2,
                               Append(result, v))

\* deduplicate(videos)
Deduplicate(videos) == DedupLoop(videos, 1, {}, {}, <<>>)

----------------------------------------------------------------------------
(* config/viral_config.py *)

min_penalty_to_keep == 2500             \* 0.25
early_age_hours == 20                   \* 2.0 h
early_age_min_views == 30
max_duration_seconds == 120
min_candidates == 40
min_videos_for_llm == 5

Max(x, y) == IF x >= y THEN x ELSE y
Min(x, y) == IF x <= y THEN x ELSE y

\* penalty *= 0.f, f in tenths (penalty_views = penalty_likes = 0.7,
\* penalty_vph = penalty_engagement = 0.6, penalty_duration =
\* penalty_comments_disabled = 0.5).
Times(penalty, f) == (penalty * f) \div 10

----------------------------------------------------------------------------
(* viral_filters.py *)

\* _hours_since(publish_time), in tenths of an hour: 24.0 when absent,
\* at least 0.1.
HoursSince(v) == IF v.publish_age = -1 THEN 240 ELSE Max(v.publish_age, 1)

\* _get_dynamic_thresholds(hours): min_views, min_likes, min_vph and
\* min_engagement (in 1/1000) for the age bucket.
DynamicThresholds(hours) ==
    IF hours <= 10 THEN [views |-> 50, likes |-> 5, vph |-> 10, eng |-> 10]
    ELSE IF hours <= 60 THEN [views |-> 300, likes |-> 20, vph |-> 25, eng |-> 20]
    ELSE IF hours <= 240 THEN [views |-> 1000, likes |-> 60, vph |-> 40, eng |-> 25]
    ELSE IF hours <= 720 THEN [views |-> 4000, likes |-> 200, vph |-> 60, eng |-> 30]
    ELSE [views |-> 10000, likes |-> 400, vph |-> 80, eng |-> 35]

\* likes + comments * 2 + shares * 3 of viral_filters._engagement_rate
WeightedEngagement(v) == v.likes + v.comments * 2 + v.shares * 3

\* age_aware_filter(video): [passed, penalty]
AgeAwareFilter(v) ==
    LET hours == HoursSince(v)
        th == DynamicThresholds(hours)
        p1 == IF v.views < th.views THEN Times(10000, 7) ELSE 10000
        p2 == IF v.likes < th.likes THEN Times(p1, 7) ELSE p1
        \* vph = views / hours < min_vph
        p3 == IF v.views * 10 < th.vph * hours THEN Times(p2, 6) ELSE p2
        \* eng = weighted / max(views, 1) < min_engagement
        p4 == IF WeightedEngagement(v) * 1000 < th.eng * Max(v.views, 1)
              THEN Times(p3, 6) ELSE p3
        p5 == IF v.duration > max_duration_seconds THEN Times(p4, 5) ELSE p4
        p6 == IF v.comments_disabled THEN Times(p5, 5) ELSE p5
    IN  IF hours < early_age_hours
        THEN IF v.views >= early_age_min_views
             THEN [passed |-> TRUE, penalty |-> 10000]
             ELSE [passed |-> TRUE, penalty |-> Times(10000, 7)]
        ELSE [passed |-> p6 >= min_penalty_to_keep, penalty |-> p6]

\* [seq[j] for j in range(lo, hi + 1) if j in keep], in the order of seq
RECURSIVE SelectRange(_, _, _, _)
SelectRange(seq, keep, lo, hi) ==
    IF lo > hi THEN <<>>
    ELSE IF lo = hi THEN (IF lo \in keep THEN <<seq[lo]>> ELSE <<>>)
    ELSE SelectRange(seq, keep, lo, (lo + hi) \div 2)
           \o SelectRange(seq, keep, (lo + hi) \div 2 + 1, hi)

\* [x for x in seq[i:] if Test(x)]
SelectIdx(seq, keep, i) == SelectRange(seq, keep, i, Len(seq))

\* list.sort(key=..., reverse=True) on a list of records with a field
\* `key`: descending, and stable (equal keys keep their order).
RECURSIVE SortKeys(_, _)
SortKeys(seq, keys) ==
    IF keys = {} THEN <<>>
    ELSE LET top == CHOOSE k \in keys : \A h \in keys : h <= k
         IN  SelectIdx(seq, {i \in 1..Len(seq) : seq[i].key = top}, 1)
               \o SortKeys(seq, keys \ {top})

SortDesc(seq) == SortKeys(seq, {seq[i].key : i \in 1..Len(seq)})

\* seq[:n]
Prefix(seq, n) == SubSeq(seq, 1, Min(n, Len(seq)))

\* seq[n:]
Suffix(seq, n) == SubSeq(seq, Min(n, Len(seq)) + 1, Len(seq))

\* A safety floor that stops promoting one short of min_keep.
PromoteOneShort(passed, rejected, total, min_keep) ==
    IF Len(passed) < min_keep /\ total >= min_keep
    THEN passed \o Prefix(SortDesc(rejected),
                          Min(min_keep - 1 - Len(passed), Len(rejected)))
    ELSE passed

\* Step 5 of age_aware_filter_batch: keep at least min_keep.
Promote(passed, rejected, total, min_keep) ==
    IF Len(passed) < min_keep /\ total >= min_keep
    THEN passed \o Prefix(SortDesc(rejected),
                          Min(min_keep - Len(passed), Len(rejected)))
    ELSE passed

\* age_aware_filter_batch(videos, min_keep): the candidates, as records
\* [video, key] with key the penalty, and the count of originally rejected.
AgeAwareFilterBatch(videos, min_keep_arg) ==
    LET min_keep == Max(min_keep_arg, min_candidates)
        results == [i \in 1..Len(videos) |->
                      [video |-> videos[i],
                       key |-> AgeAwareFilter(videos[i]).penalty]]
        ok == {i \in 1..Len(videos) : AgeAwareFilter(videos[i]).passed}
        passed == SelectIdx(results, ok, 1)
        rejected == SelectIdx(results, (1..Len(videos)) \ ok, 1)
    IN  [candidates |-> Promote(passed, rejected, Len(videos), min_keep),
         rejected |-> Len(rejected)]

----------------------------------------------------------------------------
(* viral_quality_filter.py and viral_pipeline.py *)

\* The verdict of the quality classifier is a choice of the environment: it
\* discards the videos of the platforms in verdict.platforms and the videos
\* whose id is in verdict.ids, and keeps the others.
AiQualityFilter(v, verdict) ==
    ~(v.platform \in verdict.platforms \/ v.video_id \in verdict.ids)

\* Stages 2-5 of run_viral_pipeline: score each candidate, apply the
\* penalty, sort by penalized score descending.  key is the penalized
\* viral_score.
ScoreCandidates(candidates) ==
    SortDesc([i \in 1..Len(candidates) |->
                [video |-> candidates[i].video,
                 key |-> candidates[i].video.base_score * candidates[i].key]])

\* n_for_llm = max(min_videos_for_llm, int(len(scored) * 0.30))
NForLlm(n) == Max(min_videos_for_llm, (n * 3) \div 10)

\* Stages 6-7 of run_viral_pipeline: classifier on the top slice, output =
\* passed + rest, sorted again.
ClassifyAndMerge(scored, verdict) ==
    LET n_for_llm == NForLlm(Len(scored))
        candidates_for_llm == Prefix(scored, n_for_llm)
        rest == Suffix(scored, n_for_llm)
        passed_ids == {candidates_for_llm[i].video.video_id :
                         i \in {j \in 1..Len(candidates_for_llm) :
                                  AiQualityFilter(candidates_for_llm[j].video, verdict)}}
        passed_scored ==
            SelectIdx(candidates_for_llm,
                      {i \in 1..Len(candidates_for_llm) :
                         candidates_for_llm[i].video.video_id \in passed_ids}, 1)
    IN  SortDesc(passed_scored \o rest)

\* run_viral_pipeline(videos, ...): [videos, rejected_by_filter]
RunViralPipeline(videos, verdict) ==
    IF videos = <<>>
    THEN [videos |-> <<>>, rejected_by_filter |-> 0]
    ELSE
      LET f == AgeAwareFilterBatch(videos, min_candidates)
      IN  [videos |-> ClassifyAndMerge(ScoreCandidates(f.candidates), verdict),
           rejected_by_filter |-> f.rejected]

----------------------------------------------------------------------------
(* quality_gate.py *)

min_results == 15

\* quality_score = _clamp(viral_score * virality_scale, 0.0, 10.0), in
\* 1/10000000 for a penalized score in 1/1000000 (scale 2.5 = 25/10).
QualityScore(score) == Max(0, Min(100000000, score * 25))

\* A zone test whose borderline zone starts at 6.1.
ZoneWide(q) ==
    IF q >= 70000000 THEN "HIGH_QUALITY"
    ELSE IF q >= 61000000 THEN "BORDERLINE"
    ELSE "LOW"

\* zone of a quality score: quality_threshold 7.0, borderline_threshold 6.2
Zone(q) ==
    IF q >= 70000000 THEN "HIGH_QUALITY"
    ELSE IF q >= 62000000 THEN "BORDERLINE"
    ELSE "LOW"

\* quality_gate._engagement_rate(video) > engagement_threshold (0.08):
\* (likes + comments + shares) / max(views, 1) > 0.08
GateEngagementAbove(v) ==
    (v.likes + v.comments + v.shares) * 100 > 8 * Max(v.views, 1)

\* top_count = max(1, int(n_total * top_fraction_borderline))
TopCount(n) == Max(1, (n * 3) \div 10)

\* The positions of the top 30% of the batch by viral_score.
Top30Indices(items) ==
    LET all_viral == SortDesc([i \in 1..Len(items) |->
                                 [key |-> items[i].key, idx |-> i]])
    IN  {all_viral[k].idx : k \in 1..Min(TopCount(Len(items)), Len(items))}

GateResult(item, reason) ==
    [video |-> item.video, key |-> item.key, quality_decision_reason |-> reason]

\* The decision of the main loop for items[i]: a reason, "pool" or "low".
GateDecision(items, i, top) ==
    LET zone == Zone(QualityScore(items[i].key))
    IN  IF zone = "HIGH_QUALITY" THEN "accepted_high_quality"
        ELSE IF zone = "BORDERLINE"
        THEN IF i \in top THEN "accepted_borderline_high_viral"
             ELSE IF GateEngagementAbove(items[i].video)
             THEN "accepted_borderline_engagement"
             ELSE "pool"
        ELSE "low"

\* A fallback fill that takes the pool in list order.
FallbackFillUnsorted(accepted, borderline_pool) ==
    IF Len(accepted) < min_results /\ borderline_pool # <<>>
    THEN Prefix(borderline_pool, min_results - Len(accepted))
    ELSE <<>>

\* borderline_pool.sort(key=viral_score, reverse=True); if
\* len(accepted) < min_results and borderline_pool: the first
\* min_results - len(accepted) items of the pool.
FallbackFill(accepted, borderline_pool) ==
    IF Len(accepted) < min_results /\ borderline_pool # <<>>
    THEN Prefix(SortDesc(borderline_pool), min_results - Len(accepted))
    ELSE <<>>

\* apply_quality_gate(items): items are [video, key] with key the penalized
\* viral_score; the result is the list of GateResult.
ApplyQualityGate(items) ==
    LET top == Top30Indices(items)
        n == Len(items)
        decided == [i \in 1..n |->
                      GateResult(items[i], GateDecision(items, i, top))]
        accepted == SelectIdx(decided,
                      {i \in 1..n : decided[i].quality_decision_reason
                                      \notin {"pool", "low"}}, 1)
        borderline_pool ==
            SelectIdx(decided,
                      {i \in 1..n : decided[i].quality_decision_reason = "pool"}, 1)
        fill == FallbackFill(accepted, borderline_pool)
    IN  accepted \o [k \in 1..Len(fill) |->
                       [fill[k] EXCEPT !.quality_decision_reason = "fallback_fill"]]

----------------------------------------------------------------------------
(* services/ingestion_helpers.py *)

\* platform_to_collector(platform)
PlatformToCollector(platform) ==
    IF platform = "tiktok" THEN "tiktok"
    ELSE IF platform = "reels" THEN "reels"
    ELSE IF platform = "instagram" THEN "reels"
    ELSE IF platform = "shorts" THEN "youtube"
    ELSE platform

----------------------------------------------------------------------------
(* The videos the pipeline is run on.  A kind fixes the metrics of a video  *)
(* (duration, views, likes, comments, shares, publish_age,                  *)
(* comments_disabled) and the viral_score compute_viral_score gives it, in  *)
(* 1/100, for an author with no follower count (multiplier 1.35) and a text *)
(* without a topic keyword; a video without views, likes and comments       *)
(* scores 0.                                                                *)

Kind ==
    [ hot        |-> <<22, 8000, 900, 80, 40, 10, FALSE, 1073>>,
      early_low  |-> <<15, 10, 0, 0, 0, 5, FALSE, 296>>,
      dead       |-> <<30, 500000, 1000, 10, 5, 960, FALSE, 371>>,
      weak       |-> <<20, 100, 1, 0, 0, 300, FALSE, 117>>,
      slow_long  |-> <<300, 12000, 400, 0, 0, 2000, FALSE, 216>>,
      quiet      |-> <<40, 30, 0, 0, 0, 19, FALSE, 274>>,
      long_muted |-> <<300, 2000, 100, 0, 0, 100, TRUE, 474>>,
      unseen_new |-> <<20, 0, 0, 0, 0, 10, FALSE, 0>>,
      unseen_old |-> <<20, 0, 0, 0, 0, 100, FALSE, 0>> ]

KindVideo(platform, id, k) ==
    Video(platform, id, "", <<>>, Kind[k][1], Kind[k][2], Kind[k][3],
          Kind[k][4], Kind[k][5], Kind[k][6], Kind[k][7], Kind[k][8])

\* n videos of one kind fetched from one platform, ids 1..n.
Run(platform, k, n) == [i \in 1..n |-> KindVideo(platform, i, k)]

PipeKinds ==
    {"hot", "early_low", "dead", "weak", "slow_long", "long_muted",
     "unseen_new", "unseen_old"}

\* Lengths of the per-platform lists: none, one, and two lengths that put
\* the merged list just below, at and above min_candidates.
RunLens == {0, 1, min_candidates \div 2 - 1, min_candidates \div 2}

\* The verdicts the quality classifier can give.
Verdicts == [platforms : SUBSET Platforms, ids : SUBSET {1}]

NoVerdict == [platforms |-> {}, ids |-> {}]

PipeIdle ==
    /\ pl_videos = <<>>
    /\ pl_candidates = <<>>
    /\ pl_rejected = 0
    /\ pl_scored = <<>>
    /\ pl_verdict = NoVerdict
    /\ pl_result = <<>>
    /\ pl_pc = "idle"

GateIdle ==
    /\ g_items = <<>>
    /\ g_result = <<>>
    /\ g_pc = "idle"

AdapterIdle ==
    /\ ad_kind = "none"
    /\ ad_channels = <<>>
    /\ ad_failing = {}
    /\ ad_result = 0
    /\ ad_pc = "idle"

RetryIdle ==
    /\ rt_retry_count = 0
    /\ rt_delay = 0
    /\ rt_outcomes = <<>>
    /\ rt_sleeps = <<>>
    /\ rt_result = -1
    /\ rt_pc = "idle"

DedupIdle ==
    /\ dd_videos = <<>>
    /\ dd_result = <<>>
    /\ dd_again = <<>>
    /\ dd_pc = "idle"

----------------------------------------------------------------------------
(* worker.py: the state of a cycle *)

\* The two callers of run_worker_cycle: the scheduler's interval job
\* (start_worker) and the POST /parse-now handler (routes.parse_now).
Procs == {"timer", "http"}

\* Invocations each caller makes: parse-now requests are served MaxCalls
\* times; the job runs MaxCycles cycles when no request is served, and
\* MaxOverlap cycles beside requests.
Budget(w) ==
    IF w = "http" THEN MaxCalls
    ELSE IF pc["http"] = "off" THEN MaxCycles
    ELSE MaxOverlap

\* stats = {"processed": 0, "viral": 0, "skipped": 0, "errors": 0,
\*          "rejected_filter": 0}; error_message "" stands for the absent key.
ZeroStats ==
    [processed |-> 0, viral |-> 0, skipped |-> 0, errors |-> 0,
     rejected_filter |-> 0, error_message |-> ""]

NoOutcome == [p \in Platforms |-> "none"]

\* What is recorded about the current cycle: the outcome of each platform's
\* fetch, whether a store call failed, the rows this cycle inserted, the
\* result of the last store call, whether an exception left the cycle.
NoHist ==
    [outcome |-> NoOutcome, store_failed |-> FALSE, inserted |-> 0,
     last_store |-> "none", raised |-> FALSE]

NoPrev ==
    [valid |-> FALSE, inputs |-> <<>>, gated |-> <<>>, store_failed |-> FALSE,
     stats |-> ZeroStats]

NoFeed == [p \in Platforms |-> <<>>]

WorkerIdle ==
    /\ topics = <<>>
    /\ sources = <<>>
    /\ dry_run = FALSE
    /\ feed = NoFeed
    /\ videos_table = {}
    /\ parsing_in_progress = FALSE
    /\ pc = [w \in Procs |-> "off"]
    /\ stats = [w \in Procs |-> ZeroStats]
    /\ by_platform = [w \in Procs |-> <<>>]
    /\ fetch_i = [w \in Procs |-> 1]
    /\ all_videos = [w \in Procs |-> <<>>]
    /\ gated = [w \in Procs |-> <<>>]
    /\ gate_i = [w \in Procs |-> 1]
    /\ hist = [w \in Procs |-> NoHist]
    /\ prev = [w \in Procs |-> NoPrev]
    /\ calls = [w \in Procs |-> 0]

\* The grouping loop of _run_worker_cycle: by_platform[coll].append((src,
\* ident)) for every source with an identifier, groups in the order their
\* platform first appears.  A group is [platform, items] with items the
\* ids of its sources.
RECURSIVE GroupSources(_, _, _)
GroupSources(srcs, i, groups) ==
    IF i > Len(srcs) THEN groups
    ELSE
      LET src == srcs[i]
          coll == PlatformToCollector(src.platform)
          at == {k \in 1..Len(groups) : groups[k].platform = coll}
      IN  IF ~src.ident
          THEN GroupSources(srcs, i + 1, groups)
          ELSE IF at = {}
          THEN GroupSources(srcs, i + 1,
                   Append(groups, [platform |-> coll, items |-> <<src.id>>]))
          ELSE GroupSources(srcs, i + 1,
                   [k \in 1..Len(groups) |->
                      IF k \in at
                      THEN [groups[k] EXCEPT !.items = Append(@, src.id)]
                      ELSE groups[k]])

\* A source list that is not filtered by status.
ActiveSourcesAll(srcs) == srcs

\* sources = [s for s in sources if s.get("status") == "active"]
ActiveSources(srcs) ==
    SelectIdx(srcs, {i \in 1..Len(srcs) : srcs[i].status = "active"}, 1)

\* collector_service.fetch_from_sources(channel_list, platform): every
\* adapter exception, ApifyCreditsExhaustedError included, is caught by
\* _fetch and replaced by []; the merged list is deduplicated.
\* Result: [raised, videos], raised is "none", "credits" or "generic".
FetchFromSources(platform, adapter_outcome) ==
    [raised |-> "none",
     videos |-> IF adapter_outcome = "ok" THEN Deduplicate(feed[platform])
                ELSE <<>>]

\* asyncio.run(fetch_from_sources(channel_list, coll_platform)) as the
\* worker sees it.  Called on the event loop's thread (parse_now is a
\* coroutine) asyncio.run raises RuntimeError; on the scheduler's thread it
\* returns what fetch_from_sources returns, or raises what the environment
\* makes it raise ("raised", or "raised_quota" when the message holds one of
\* _CREDIT_KEYWORDS).
AsyncioRun(w, platform, outcome) ==
    IF w = "http" \/ outcome = "raised" THEN [raised |-> "generic", videos |-> <<>>]
    ELSE IF outcome = "raised_quota" THEN [raised |-> "quota", videos |-> <<>>]
    ELSE FetchFromSources(platform, outcome)

\* The outcomes a fetch can have for caller w.
FetchOutcomes(w) ==
    IF w = "http" THEN {"raised"}
    ELSE {"ok", "adapter_credits", "adapter_error", "raised", "raised_quota"}

\* An except branch of the fetch loop that also drops what was collected.
AfterFetchErrorReset(collected) == <<>>

\* all_videos after an except branch of the fetch loop: untouched.
AfterFetchError(collected) == collected

\* external_id = f"{video.platform}:{video.video_id}"
ExternalId(v) == <<v.platform, v.video_id>>

\* table("videos").select(columns="id", external_id=external_id)
Existing(external_id) == {r \in videos_table : r.external_id = external_id}

\* A lookup that always answers the source of the first collected video.
SourceOfFirst(collected, v) == collected[1].src

\* video_to_source.get((video.platform, video.video_id), all_videos[0][0])
SourceOf(collected, v) ==
    LET at == {i \in 1..Len(collected) : VideoKey(collected[i].video) = VideoKey(v)}
    IN  IF at = {} THEN collected[1].src
        ELSE collected[CHOOSE i \in at : \A j \in at : j <= i].src

\* The scaled score without the clamp to [1, 10].
ViralityScoreUnclamped(score) == (score * 25) \div 10000000

\* virality_score = min(10, max(1, int(viral_score * virality_scale)))
ViralityScore(score) == Min(10, Max(1, (score * 25) \div 10000000))

\* A viral test with the threshold at 3.0.
IsViralHigh(score) == score >= 3000000

\* is_viral = viral_score >= viral_score_threshold (1.5)
IsViral(score) == score >= 1500000

\* The record the worker builds for a GateResult.
Record(collected, gate) ==
    [source_id |-> SourceOf(collected, gate.video),
     external_id |-> ExternalId(gate.video),
     virality_score |-> ViralityScore(gate.key),
     is_viral |-> IsViral(gate.key),
     quality_decision_reason |-> gate.quality_decision_reason]

\* A DRY_RUN test that is always taken.
DryRunAlways(flag) == TRUE

\* `if ingestion_settings.DRY_RUN:`
DryRun(flag) == flag

\* An existing row that is passed over without counting it.
OnExistingUncounted(st) == st

\* `if existing: stats["skipped"] += 1`
OnExisting(st) == [st EXCEPT !.skipped = @ + 1]

\* A conflict counted as an error.
OnConflictError(st) == [st EXCEPT !.errors = @ + 1]

\* `if e.response.status_code == 409: stats["skipped"] += 1`
OnConflict(st) == [st EXCEPT !.skipped = @ + 1]

\* A count of stored results that leaves viral alone.
OnStoredNoViral(st, is_viral) == [st EXCEPT !.processed = @ + 1]

\* stats after a result was stored (or would be, under DRY_RUN).
OnStored(st, is_viral) ==
    [st EXCEPT !.processed = @ + 1,
               !.viral = IF is_viral THEN @ + 1 ELSE @]

----------------------------------------------------------------------------
(* Inputs of deduplicate: every list of at most MaxLen videos over a small *)
(* product of the fields the deduplicator reads.                           *)

\* The shapes (sound_id, title, duration) the input videos take: titles with
\* cosine 0.5 (1 and 2, 1 and 5), cosine 0.82 (3 with 1, 2 and 5) and 0,
\* durations 2 seconds and 10 or more seconds apart, with and without sound.
DedupShapes ==
    { <<"",   <<"cat", "dance">>,         10>>,
      <<"",   <<"Cat", "fail">>,          12>>,
      <<"",   <<"cat", "dance", "fail">>, 20>>,
      <<"s1", <<>>,                       10>>,
      <<"s1", <<"Cat", "fail">>,          30>>,
      <<"",   <<>>,                       12>> }

DedupVideos ==
    { Video(p, id, sh[1], sh[2], sh[3], 0, 0, 0, 0, -1, FALSE, 0) :
        p \in {"tiktok", "youtube"}, id \in {1, 2}, sh \in DedupShapes }

SeqsUpTo(S, n) == UNION { [1..k -> S] : k \in 0..n }

DedupInit ==
    /\ dd_videos \in SeqsUpTo(DedupVideos, MaxLen)
    /\ dd_result = <<>>
    /\ dd_again = <<>>
    /\ dd_pc = "in"
    /\ PipeIdle
    /\ WorkerIdle
    /\ GateIdle
    /\ AdapterIdle
    /\ RetryIdle

\* deduplicate(xs)
DedupOnce ==
    /\ dd_pc = "in"
    /\ dd_result' = Deduplicate(dd_videos)
    /\ dd_pc' = "once"
    /\ UNCHANGED <<dd_videos, dd_again, pipeVars,
                   gateVars, adapterVars, retryVars, workerVars>>

\* deduplicate(deduplicate(xs))
DedupTwice ==
    /\ dd_pc = "once"
    /\ dd_again' = Deduplicate(dd_result)
    /\ dd_pc' = "twice"
    /\ UNCHANGED <<dd_videos, dd_result, pipeVars,
                   gateVars, adapterVars, retryVars, workerVars>>

DedupNext == DedupOnce \/ DedupTwice

SpecDedup == DedupInit /\ [][DedupNext]_vars

----------------------------------------------------------------------------
(* run_viral_pipeline, stage by stage, on the merged list of three         *)
(* per-platform lists.                                                     *)

PipeInit ==
    /\ \E kt \in PipeKinds, kr \in PipeKinds, ky \in PipeKinds :
       \E nt \in RunLens, nr \in RunLens, ny \in RunLens :
         pl_videos = Run("tiktok", kt, nt) \o Run("reels", kr, nr)
                       \o Run("youtube", ky, ny)
    /\ pl_candidates = <<>>
    /\ pl_rejected = 0
    /\ pl_scored = <<>>
    /\ pl_verdict = NoVerdict
    /\ pl_result = <<>>
    /\ pl_pc = "in"
    /\ DedupIdle
    /\ WorkerIdle
    /\ GateIdle
    /\ AdapterIdle
    /\ RetryIdle

\* `if not videos: return PipelineResult(videos=[], ...)`
PipelineEmpty ==
    /\ pl_pc = "in"
    /\ pl_videos = <<>>
    /\ pl_result' = <<>>
    /\ pl_pc' = "done"
    /\ UNCHANGED <<pl_videos, pl_candidates, pl_rejected, pl_scored, pl_verdict,
                   dedupVars, workerVars,
                   gateVars, adapterVars, retryVars>>

\* Stage 1: age_aware_filter_batch(videos, min_keep=min_candidates)
PipelineFilter ==
    /\ pl_pc = "in"
    /\ pl_videos # <<>>
    /\ LET f == AgeAwareFilterBatch(pl_videos, min_candidates)
       IN  /\ pl_candidates' = f.candidates
           /\ pl_rejected' = f.rejected
    /\ pl_pc' = "filtered"
    /\ UNCHANGED <<pl_videos, pl_scored, pl_verdict, pl_result, dedupVars, workerVars,
                   gateVars, adapterVars, retryVars>>

\* Stages 2-5: score, penalize, sort
PipelineScore ==
    /\ pl_pc = "filtered"
    /\ pl_scored' = ScoreCandidates(pl_candidates)
    /\ pl_pc' = "scored"
    /\ UNCHANGED <<pl_videos, pl_candidates, pl_rejected, pl_verdict, pl_result,
                   dedupVars, workerVars,
                   gateVars, adapterVars, retryVars>>

\* Stages 6-7: classifier on the top slice, merge with the tail, sort
PipelineClassify ==
    /\ pl_pc = "scored"
    /\ \E verdict \in Verdicts :
         /\ pl_verdict' = verdict
         /\ pl_result' = ClassifyAndMerge(pl_scored, verdict)
    /\ pl_pc' = "done"
    /\ UNCHANGED <<pl_videos, pl_candidates, pl_rejected, pl_scored, dedupVars, workerVars,
                   gateVars, adapterVars, retryVars>>

PipeNext == PipelineEmpty \/ PipelineFilter \/ PipelineScore \/ PipelineClassify

SpecPipeline == PipeInit /\ [][PipeNext]_vars

----------------------------------------------------------------------------
(* Claims about the filter and the pipeline *)

\* C1: for every non-empty input and every verdict of the classifier,
\* run_viral_pipeline returns a non-empty list.
C1_NeverEmpty ==
    (pl_pc = "done" /\ pl_videos # <<>>) => pl_result # <<>>

PipeKeys(seq) == {VideoKey(seq[i].video) : i \in 1..Len(seq)}

\* Penalties of the rejected videos of the input that are (in = TRUE) or
\* are not (in = FALSE) among the candidates.
RejectedPenalties(in) ==
    LET keys == PipeKeys(pl_candidates)
    IN  {AgeAwareFilter(pl_videos[i]).penalty :
           i \in {j \in 1..Len(pl_videos) :
                    /\ ~AgeAwareFilter(pl_videos[j]).passed
                    /\ (VideoKey(pl_videos[j]) \in keys) = in}}

\* C8: for an input of min_candidates (40) or more videos the filter
\* returns at least 40 candidates; every video that passed is among them and
\* no rejected video that was left out has a higher penalty than a rejected
\* video that was promoted.
C8_SafetyFloor ==
    (pl_pc = "filtered" /\ Len(pl_videos) >= min_candidates) =>
      /\ Len(pl_candidates) >= min_candidates
      /\ LET keys == PipeKeys(pl_candidates)
         IN  \A i \in 1..Len(pl_videos) :
               AgeAwareFilter(pl_videos[i]).passed
                 => VideoKey(pl_videos[i]) \in keys
      /\ \A p \in RejectedPenalties(TRUE) : \A q \in RejectedPenalties(FALSE) :
           p >= q

\* C8 witness: 40 or more videos, fewer than 40 passed, and of two rejected
\* videos the one with the higher penalty was promoted, the other left out.
C8_Witness ==
    /\ pl_pc = "filtered"
    /\ Len(pl_videos) >= min_candidates
    /\ Len(pl_candidates) = min_candidates
    /\ \E p \in RejectedPenalties(TRUE) : \E q \in RejectedPenalties(FALSE) :
         p > q

----------------------------------------------------------------------------
(* apply_quality_gate on lists of scored videos                            *)

\* A scored video as the gate reads it: its viral_score (key, in 1/1000000)
\* and its likes, comments and shares of 100 views.
GateItem(id, key, likes, comments, shares) ==
    [video |-> Video("tiktok", id, "", <<>>, 20, 100, likes, comments, shares,
                     100, FALSE, 0),
     key |-> key]

\* Item number id of a block: high quality (quality_score 7.0 and 10),
\* borderline with engagement 0.10, borderline without engagement (three
\* scores from 6.2 up; 8 likes, or 2 likes, 2 comments and a share), low
\* (just below 6.2, and 2.5).
BlockItem(block, id) ==
    IF block = "high"
    THEN GateItem(id, IF id % 2 = 0 THEN 2800000 ELSE 10730000, 0, 0, 0)
    ELSE IF block = "engaged" THEN GateItem(id, 2600000, 10, 0, 0)
    ELSE IF block = "quiet"
    THEN IF id % 3 = 0 THEN GateItem(id, 2480000, 2, 2, 1)
         ELSE GateItem(id, 2480000 + 100000 * (id % 3), 8, 0, 0)
    ELSE GateItem(id, IF id % 2 = 0 THEN 2479999 ELSE 1000000, 0, 0, 0)

\* The input list: the blocks in the given order, block b with size[b]
\* items, ids counting from 1.
RECURSIVE GateList(_, _, _, _)
GateList(order, size, b, next_id) ==
    IF b > Len(order) THEN <<>>
    ELSE [k \in 1..size[order[b]] |-> BlockItem(order[b], next_id + k - 1)]
           \o GateList(order, size, b + 1, next_id + size[order[b]])

GateOrders ==
    { <<"high", "quiet", "engaged", "low">>,
      <<"low", "quiet", "high", "engaged">>,
      <<"quiet", "engaged", "low", "high">> }

\* Block sizes around min_results.
GateSizes ==
    [high : {0, 1, min_results - 1, min_results},
     quiet : {0, 1, 2, min_results + 1},
     engaged : {0, 1},
     low : {0, 1, 3}]

GateInit ==
    /\ \E order \in GateOrders, size \in GateSizes :
         g_items = GateList(order, size, 1, 1)
    /\ g_result = <<>>
    /\ g_pc = "in"
    /\ AdapterIdle
    /\ RetryIdle
    /\ DedupIdle
    /\ PipeIdle
    /\ WorkerIdle

\* apply_quality_gate(items)
GateApply ==
    /\ g_pc = "in"
    /\ g_result' = ApplyQualityGate(g_items)
    /\ g_pc' = "done"
    /\ UNCHANGED <<g_items, dedupVars, pipeVars, workerVars, adapterVars, retryVars>>

GateNext == GateApply

SpecGate == GateInit /\ [][GateNext]_vars

----------------------------------------------------------------------------
(* fetch_from_sources of the adapters, on the number of videos: channel i   *)
(* of channel_list has ad_channels[i] videos on the platform, and the       *)
(* fetches of the channels in ad_failing fail on every retry.               *)

\* ingestion_settings.MAX_RESULTS_PER_PLATFORM, the default max_results of
\* an adapter
MAX_RESULTS_PER_PLATFORM == 20

\* results after `for c in channel_list[:10]: results.extend(batch)`, from
\* channel i on: a batch has at most per_call videos, and _safe_fetch
\* answers [] for a channel whose fetch fails.
RECURSIVE ExtendBatches(_, _, _, _)
ExtendBatches(channel_list, failing, per_call, i) ==
    IF i > Min(10, Len(channel_list)) THEN 0
    ELSE (IF i \in failing THEN 0 ELSE Min(channel_list[i], per_call))
           + ExtendBatches(channel_list, failing, per_call, i + 1)

\* Lists of at most MaxChannels channels with the same number of videos
\* each: none, a few, a page of TikTok, a page of YouTube.
ChannelLists ==
    {[i \in 1..n |-> per] : n \in 0..MaxChannels, per \in {0, 3, 20, 25}}

AdapterInit ==
    /\ ad_kind \in {"tiktok", "apify_tiktok", "youtube"}
    /\ ad_channels \in ChannelLists
    /\ ad_failing \in SUBSET (1..Min(2, Len(ad_channels)))
    /\ ad_result = 0
    /\ ad_pc = "in"
    /\ DedupIdle
    /\ PipeIdle
    /\ WorkerIdle
    /\ GateIdle
    /\ RetryIdle

\* TikTokAdapter.fetch_from_sources: user.videos(count=min(20, max_results))
\* for each of the first ten users.
TikTokFetchFromSources ==
    /\ ad_kind = "tiktok"
    /\ ad_pc = "in"
    /\ ad_result' = ExtendBatches(ad_channels, ad_failing,
                                  Min(20, MAX_RESULTS_PER_PLATFORM), 1)
    /\ ad_pc' = "done"
    /\ UNCHANGED <<ad_kind, ad_channels, ad_failing, dedupVars, pipeVars,
                   workerVars, gateVars, retryVars>>

\* YouTubeAdapter.fetch_from_sources: maxResults=min(25, max_results) for
\* each of the first ten channels.
YouTubeFetchFromSources ==
    /\ ad_kind = "youtube"
    /\ ad_pc = "in"
    /\ ad_result' = ExtendBatches(ad_channels, ad_failing,
                                  Min(25, MAX_RESULTS_PER_PLATFORM), 1)
    /\ ad_pc' = "done"
    /\ UNCHANGED <<ad_kind, ad_channels, ad_failing, dedupVars, pipeVars,
                   workerVars, gateVars, retryVars>>

\* ApifyTikTokAdapter.fetch_from_sources: [] without a token or channels;
\* one actor run over the first ten profiles with
\* resultsPerPage = min(20, max_results * 2), whose failure raises; the
\* result is cut to max_results * 5.
ApifyTikTokFetchFromSources ==
    /\ ad_kind = "apify_tiktok"
    /\ ad_pc = "in"
    /\ \E token \in BOOLEAN :
         IF ~token \/ ad_channels = <<>>
         THEN /\ ad_result' = 0
              /\ ad_pc' = "done"
         ELSE IF ad_failing # {}
         THEN /\ ad_result' = 0
              /\ ad_pc' = "raised"
         ELSE /\ ad_result' =
                   Min(ExtendBatches(ad_channels, {},
                                     Min(20, MAX_RESULTS_PER_PLATFORM * 2), 1),
                       MAX_RESULTS_PER_PLATFORM * 5)
              /\ ad_pc' = "done"
    /\ UNCHANGED <<ad_kind, ad_channels, ad_failing, dedupVars, pipeVars,
                   workerVars, gateVars, retryVars>>

AdapterNext ==
    \/ TikTokFetchFromSources
    \/ YouTubeFetchFromSources
    \/ ApifyTikTokFetchFromSources

SpecAdapter == AdapterInit /\ [][AdapterNext]_vars

----------------------------------------------------------------------------
(* BaseAdapter._safe_fetch and _retry (adapters/base_adapter.py): one      *)
(* action per call of the fetcher                                          *)

\* A retry loop that sleeps the same delay after every failed attempt.
RetryDelayFixed(delay_seconds, attempt) == delay_seconds

\* delay = RETRY_DELAY_SECONDS * (attempt + 1)
RetryDelay(delay_seconds, attempt) == delay_seconds * (attempt + 1)

\* The attempt the loop `for attempt in range(self.retry_count)` is at.
Attempt == Len(rt_outcomes)

RetryInit ==
    /\ rt_retry_count \in 0..MaxRetry
    /\ rt_delay \in {1, 2, 3}
    /\ rt_outcomes = <<>>
    /\ rt_sleeps = <<>>
    /\ rt_result = -1
    /\ rt_pc = "try"
    /\ DedupIdle
    /\ PipeIdle
    /\ WorkerIdle
    /\ GateIdle
    /\ AdapterIdle

\* An attempt whose `await fn(*args)` returns n videos: _retry returns them
\* and _safe_fetch returns them.
AttemptSucceeds ==
    /\ rt_pc = "try"
    /\ Attempt < rt_retry_count
    /\ \E n \in 0..3 :
         /\ rt_outcomes' = Append(rt_outcomes, n)
         /\ rt_result' = n
    /\ rt_pc' = "returned"
    /\ UNCHANGED <<rt_retry_count, rt_delay, rt_sleeps, dedupVars, pipeVars,
                   workerVars, gateVars, adapterVars>>

\* An attempt whose fetcher raises: last_error is set, and the loop sleeps
\* unless this was the last attempt.
AttemptFails ==
    /\ rt_pc = "try"
    /\ Attempt < rt_retry_count
    /\ rt_outcomes' = Append(rt_outcomes, -1)
    /\ rt_sleeps' = IF Attempt < rt_retry_count - 1
                    THEN Append(rt_sleeps, RetryDelay(rt_delay, Attempt))
                    ELSE rt_sleeps
    /\ UNCHANGED <<rt_retry_count, rt_delay, rt_result, rt_pc, dedupVars,
                   pipeVars, workerVars, gateVars, adapterVars>>

\* The loop is over: `raise last_error` (a TypeError when retry_count is 0
\* and last_error is None).
RetryRaises ==
    /\ rt_pc = "try"
    /\ Attempt >= rt_retry_count
    /\ rt_pc' = "raise"
    /\ UNCHANGED <<rt_retry_count, rt_delay, rt_outcomes, rt_sleeps, rt_result,
                   dedupVars, pipeVars, workerVars, gateVars, adapterVars>>

\* _safe_fetch: `except Exception as e: ... return []`
SafeFetchExcept ==
    /\ rt_pc = "raise"
    /\ rt_result' = 0
    /\ rt_pc' = "returned"
    /\ UNCHANGED <<rt_retry_count, rt_delay, rt_outcomes, rt_sleeps, dedupVars,
                   pipeVars, workerVars, gateVars, adapterVars>>

RetryNext ==
    \/ AttemptSucceeds
    \/ AttemptFails
    \/ RetryRaises
    \/ SafeFetchExcept

SpecRetry == RetryInit /\ [][RetryNext]_vars

----------------------------------------------------------------------------
(* The worker cycle (worker.py), one action per step of run_worker_cycle   *)

\* The rows of table sources: two rows, each of a platform and either
\* active, inactive, or active with a url no identifier can be parsed from.
SourceRow(id, platform, shape) ==
    [id |-> id, platform |-> platform,
     status |-> IF shape = "inactive" THEN "inactive" ELSE "active",
     ident |-> shape # "nourl"]

SourcePlatforms == {"tiktok", "instagram", "shorts"}

SourceShapes == {"active", "inactive", "nourl"}

\* The video with the given title.
Titled(v, title) == [v EXCEPT !.title = title]

\* What the adapters of the three platforms return: a TikTok list with a
\* repeated video, or nothing, from TikTok; one video from Reels; a weak and
\* a dead video from YouTube.
FeedWorlds ==
    { [tiktok |-> <<Titled(KindVideo("tiktok", 1, "hot"), <<"dance">>),
                    Titled(KindVideo("tiktok", 1, "hot"), <<"dance">>),
                    KindVideo("tiktok", 2, "quiet")>>,
       reels |-> <<Titled(KindVideo("reels", 1, "hot"), <<"dance">>)>>,
       youtube |-> <<KindVideo("youtube", 1, "weak"), KindVideo("youtube", 2, "dead")>>],
      [tiktok |-> <<>>,
       reels |-> <<KindVideo("reels", 1, "quiet")>>,
       youtube |-> <<KindVideo("youtube", 1, "hot")>>] }

CycleIdle(on) ==
    /\ videos_table = {}
    /\ parsing_in_progress = FALSE
    /\ pc = [w \in Procs |-> IF w \in on THEN "idle" ELSE "off"]
    /\ stats = [w \in Procs |-> ZeroStats]
    /\ by_platform = [w \in Procs |-> <<>>]
    /\ fetch_i = [w \in Procs |-> 1]
    /\ all_videos = [w \in Procs |-> <<>>]
    /\ gated = [w \in Procs |-> <<>>]
    /\ gate_i = [w \in Procs |-> 1]
    /\ hist = [w \in Procs |-> NoHist]
    /\ prev = [w \in Procs |-> NoPrev]
    /\ calls = [w \in Procs |-> 0]

\* The scheduler's job alone, on every configuration of the store.
Init ==
    /\ topics \in {<<>>, <<"cat">>}
    /\ \E p1 \in SourcePlatforms, p2 \in SourcePlatforms :
       \E s1 \in SourceShapes, s2 \in SourceShapes :
         sources = <<SourceRow(1, p1, s1), SourceRow(2, p2, s2)>>
    /\ dry_run \in BOOLEAN
    /\ feed \in FeedWorlds
    /\ CycleIdle({"timer"})
    /\ DedupIdle
    /\ PipeIdle
    /\ GateIdle
    /\ AdapterIdle
    /\ RetryIdle

\* run_worker_cycle: `_parsing_in_progress = True`, then the body starts
\* with fresh stats.
CycleStart(w) ==
    /\ pc[w] = "idle"
    /\ calls[w] < Budget(w)
    /\ parsing_in_progress' = TRUE
    /\ pc' = [pc EXCEPT ![w] = "load"]
    /\ stats' = [stats EXCEPT ![w] = ZeroStats]
    /\ by_platform' = [by_platform EXCEPT ![w] = <<>>]
    /\ fetch_i' = [fetch_i EXCEPT ![w] = 1]
    /\ all_videos' = [all_videos EXCEPT ![w] = <<>>]
    /\ gated' = [gated EXCEPT ![w] = <<>>]
    /\ gate_i' = [gate_i EXCEPT ![w] = 1]
    /\ hist' = [hist EXCEPT ![w] = NoHist]
    /\ calls' = [calls EXCEPT ![w] = @ + 1]
    /\ UNCHANGED <<configVars, videos_table, prev, dedupVars, pipeVars,
                   gateVars, adapterVars, retryVars>>

\* Reads of topics and sources, the early returns, the grouping by
\* platform.  A failing read raises out of the cycle.
LoadConfig(w) ==
    /\ pc[w] = "load"
    /\ \E ok \in BOOLEAN :
         LET active == ActiveSources(sources)
             groups == GroupSources(active, 1, <<>>)
         IN  IF ~ok
             THEN /\ hist' = [hist EXCEPT ![w].store_failed = TRUE,
                                          ![w].raised = TRUE]
                  /\ pc' = [pc EXCEPT ![w] = "finally"]
                  /\ UNCHANGED by_platform
             ELSE IF topics = <<>> \/ active = <<>>
             THEN /\ pc' = [pc EXCEPT ![w] = "finally"]
                  /\ UNCHANGED <<hist, by_platform>>
             ELSE /\ by_platform' = [by_platform EXCEPT ![w] = groups]
                  /\ pc' = [pc EXCEPT ![w] =
                              IF groups = <<>> THEN "pipeline" ELSE "fetch"]
                  /\ UNCHANGED hist
    /\ UNCHANGED <<configVars, videos_table, parsing_in_progress, stats, fetch_i,
                   all_videos, gated, gate_i, prev, calls, dedupVars, pipeVars,
                   gateVars, adapterVars, retryVars>>

\* The store accepts a row when no row has its external_id (the unique
\* column of table videos); otherwise it answers 409.
StoreAccepts(record) == Existing(record.external_id) = {}

\* One iteration of `for coll_platform, items in by_platform.items()`.
FetchPlatform(w) ==
    /\ pc[w] = "fetch"
    /\ LET g == by_platform[w][fetch_i[w]]
       IN  \E outcome \in FetchOutcomes(w) :
             LET r == AsyncioRun(w, g.platform, outcome)
             IN  /\ hist' = [hist EXCEPT ![w].outcome[g.platform] = outcome]
                 /\ IF r.raised = "none"
                    THEN /\ all_videos' = [all_videos EXCEPT ![w] =
                               @ \o [k \in 1..Len(r.videos) |->
                                       [src |-> g.items[1], video |-> r.videos[k]]]]
                         /\ UNCHANGED stats
                    ELSE /\ all_videos' = [all_videos EXCEPT ![w] = AfterFetchError(@)]
                         /\ stats' = [stats EXCEPT
                               ![w].errors = @ + 1,
                               ![w].error_message =
                                  IF r.raised = "credits" THEN "apify credits"
                                  ELSE IF r.raised = "quota" THEN g.platform
                                  ELSE @]
    /\ fetch_i' = [fetch_i EXCEPT ![w] = @ + 1]
    /\ pc' = [pc EXCEPT ![w] =
                IF fetch_i[w] = Len(by_platform[w]) THEN "pipeline" ELSE "fetch"]
    /\ UNCHANGED <<configVars, videos_table, parsing_in_progress, by_platform,
                   gated, gate_i, prev, calls, dedupVars, pipeVars,
                   gateVars, adapterVars, retryVars>>

\* `if not all_videos: return stats`, run_viral_pipeline, apply_quality_gate
RunPipeline(w) ==
    /\ pc[w] = "pipeline"
    /\ IF all_videos[w] = <<>>
       THEN /\ pc' = [pc EXCEPT ![w] = "finally"]
            /\ UNCHANGED <<stats, gated>>
       ELSE \E verdict \in Verdicts :
              LET videos == [k \in 1..Len(all_videos[w]) |-> all_videos[w][k].video]
                  result == RunViralPipeline(videos, verdict)
                  accepted == ApplyQualityGate(result.videos)
              IN  /\ stats' = [stats EXCEPT
                                 ![w].rejected_filter = result.rejected_by_filter]
                  /\ gated' = [gated EXCEPT ![w] = accepted]
                  /\ pc' = [pc EXCEPT ![w] =
                              IF accepted = <<>> THEN "finally" ELSE "exists"]
    /\ UNCHANGED <<configVars, videos_table, parsing_in_progress, by_platform,
                   fetch_i, all_videos, gate_i, hist, prev, calls, dedupVars,
                   pipeVars,
                   gateVars, adapterVars, retryVars>>

\* pc of w after the GateResult at gate_i was handled (`continue`).
NextResult(w) ==
    IF gate_i[w] = Len(gated[w]) THEN "finally" ELSE "exists"

\* The head of the loop body for one GateResult: the exists-check, and under
\* DRY_RUN the logged insert.
ExistsCheck(w) ==
    /\ pc[w] = "exists"
    /\ LET gate == gated[w][gate_i[w]]
           record == Record(all_videos[w], gate)
       IN  \E ok \in BOOLEAN :
             IF ~ok
             THEN /\ stats' = [stats EXCEPT ![w].errors = @ + 1]
                  /\ hist' = [hist EXCEPT ![w].store_failed = TRUE,
                                           ![w].last_store = "failed"]
                  /\ pc' = [pc EXCEPT ![w] = NextResult(w)]
                  /\ gate_i' = [gate_i EXCEPT ![w] = @ + 1]
             ELSE IF Existing(record.external_id) # {}
             THEN /\ stats' = [stats EXCEPT ![w] = OnExisting(@)]
                  /\ hist' = [hist EXCEPT ![w].last_store = "found"]
                  /\ pc' = [pc EXCEPT ![w] = NextResult(w)]
                  /\ gate_i' = [gate_i EXCEPT ![w] = @ + 1]
             ELSE IF DryRun(dry_run)
             THEN /\ stats' = [stats EXCEPT ![w] = OnStored(@, record.is_viral)]
                  /\ hist' = [hist EXCEPT ![w].last_store = "absent"]
                  /\ pc' = [pc EXCEPT ![w] = NextResult(w)]
                  /\ gate_i' = [gate_i EXCEPT ![w] = @ + 1]
             ELSE /\ hist' = [hist EXCEPT ![w].last_store = "absent"]
                  /\ pc' = [pc EXCEPT ![w] = "insert"]
                  /\ UNCHANGED <<stats, gate_i>>
    /\ UNCHANGED <<configVars, videos_table, parsing_in_progress, by_platform,
                   fetch_i, all_videos, gated, prev, calls, dedupVars, pipeVars,
                   gateVars, adapterVars, retryVars>>

\* table("videos").insert(record) and the handling of its result.  The
\* store rejects a second row with the same external_id with status 409.
InsertVideo(w) ==
    /\ pc[w] = "insert"
    /\ LET gate == gated[w][gate_i[w]]
           record == Record(all_videos[w], gate)
       IN  \E ok \in BOOLEAN :
             IF ~ok
             THEN /\ stats' = [stats EXCEPT ![w].errors = @ + 1]
                  /\ hist' = [hist EXCEPT ![w].store_failed = TRUE,
                                           ![w].last_store = "failed"]
                  /\ UNCHANGED videos_table
             ELSE IF ~StoreAccepts(record)
             THEN /\ stats' = [stats EXCEPT ![w] = OnConflict(@)]
                  /\ hist' = [hist EXCEPT ![w].last_store = "conflict"]
                  /\ UNCHANGED videos_table
             ELSE /\ videos_table' = videos_table \cup {record}
                  /\ stats' = [stats EXCEPT ![w] = OnStored(@, record.is_viral)]
                  /\ hist' = [hist EXCEPT ![w].last_store = "inserted",
                                           ![w].inserted = @ + 1]
    /\ pc' = [pc EXCEPT ![w] = NextResult(w)]
    /\ gate_i' = [gate_i EXCEPT ![w] = @ + 1]
    /\ UNCHANGED <<configVars, parsing_in_progress, by_platform, fetch_i,
                   all_videos, gated, prev, calls, dedupVars, pipeVars,
                   gateVars, adapterVars, retryVars>>

\* A finally block that leaves the flag as it is.
FlagAfterFinallyKept(flag) == flag

\* `finally: _parsing_in_progress = False`
FlagAfterFinally(flag) == FALSE

\* `finally: _parsing_in_progress = False`, and the cycle returns (or
\* raises).
CycleEnd(w) ==
    /\ pc[w] = "finally"
    /\ parsing_in_progress' = FlagAfterFinally(parsing_in_progress)
    /\ pc' = [pc EXCEPT ![w] = "idle"]
    /\ prev' = [prev EXCEPT ![w] =
                  [valid |-> TRUE, inputs |-> all_videos[w], gated |-> gated[w],
                   store_failed |-> hist[w].store_failed, stats |-> stats[w]]]
    /\ UNCHANGED <<configVars, videos_table, stats, by_platform, fetch_i,
                   all_videos, gated, gate_i, hist, calls, dedupVars, pipeVars,
                   gateVars, adapterVars, retryVars>>

Next ==
    \E w \in Procs :
        \/ CycleStart(w)
        \/ LoadConfig(w)
        \/ FetchPlatform(w)
        \/ RunPipeline(w)
        \/ ExistsCheck(w)
        \/ InsertVideo(w)
        \/ CycleEnd(w)

Spec == Init /\ [][Next]_vars

----------------------------------------------------------------------------
(* The scheduler's job, a parse-now request and another instance of the    *)
(* service writing to the same store                                       *)

InitConcurrent ==
    /\ topics = <<"cat">>
    /\ \E s2 \in {"inactive", "nourl"} :
         sources = <<SourceRow(1, "tiktok", "active"), SourceRow(2, "instagram", s2)>>
    /\ dry_run = FALSE
    /\ feed \in {f \in FeedWorlds : f.tiktok # <<>>}
    /\ CycleIdle(Procs)
    /\ DedupIdle
    /\ PipeIdle
    /\ GateIdle
    /\ AdapterIdle
    /\ RetryIdle

\* The rows another instance has stored.
PeerRows == {r \in videos_table : r.source_id = 0}

\* Another instance stores one of the videos the adapters return.
PeerInsert ==
    /\ Cardinality(PeerRows) < MaxPeerRows
    /\ \E p \in Platforms :
       \E i \in 1..Len(feed[p]) :
         LET record == [source_id |-> 0,
                        external_id |-> ExternalId(feed[p][i]),
                        virality_score |-> 1,
                        is_viral |-> FALSE,
                        quality_decision_reason |-> "high_quality"]
         IN  /\ StoreAccepts(record)
             /\ videos_table' = videos_table \cup {record}
    /\ UNCHANGED <<configVars, parsing_in_progress, cycleVars, dedupVars, pipeVars,
                   gateVars, adapterVars, retryVars>>

NextConcurrent == Next \/ PeerInsert

SpecConcurrent == InitConcurrent /\ [][NextConcurrent]_vars

\* The video without what the optional penalties look at: at most
\* max_duration_seconds long, comments enabled.
WithoutOptional(v) ==
    [v EXCEPT !.duration = Min(@, max_duration_seconds),
              !.comments_disabled = FALSE]

\* C23: for a video aged 2 hours or more the optional penalties (duration
\* over 120 s, comments disabled) never turn a verdict that is passed
\* without them into rejected.
C23_OptionalDoNotBlock ==
    pl_pc # "in" =>
      \A i \in 1..Len(pl_videos) :
        LET v == pl_videos[i]
        IN  (HoursSince(v) >= early_age_hours /\ AgeAwareFilter(WithoutOptional(v)).passed)
              => AgeAwareFilter(v).passed

\* The position in the pipeline's input of the video of a result.
InputPos(item) ==
    CHOOSE i \in 1..Len(pl_videos) : VideoKey(pl_videos[i]) = VideoKey(item.video)

\* C24: the list run_viral_pipeline returns is sorted by descending
\* penalized viral_score, and results with equal penalized viral_score are
\* in the order their videos had in the input (stated on neighbours, which
\* gives it for every pair).
C24_StableOrder ==
    pl_pc = "done" =>
      \A a \in 1..(Len(pl_result) - 1) :
        /\ pl_result[a].key >= pl_result[a + 1].key
        /\ pl_result[a].key = pl_result[a + 1].key
             => InputPos(pl_result[a]) < InputPos(pl_result[a + 1])

\* C25: the first max(5, floor(0.30 * n)) of the n scored candidates are the
\* top slice; a top-slice candidate is in the output exactly when the
\* classifier returned it, and every other candidate is in the output.
C25_TopSliceVerdict ==
    pl_pc = "done" =>
      \A i \in 1..Len(pl_scored) :
        (VideoKey(pl_scored[i].video) \in PipeKeys(pl_result))
          <=> \/ i > NForLlm(Len(pl_scored))
              \/ AiQualityFilter(pl_scored[i].video, pl_verdict)

----------------------------------------------------------------------------
(* Claims about the worker cycle *)

Failed(outcome) == outcome \notin {"ok", "none"}

Running(w) == pc[w] \notin {"idle", "off"}

\* C2: when an adapter raised ApifyCreditsExhaustedError during a cycle, the
\* stats the cycle returns have errors >= 1 and an error_message.
C2_CreditsReported ==
    \A w \in Procs :
        (/\ pc[w] = "finally"
         /\ ~hist[w].raised
         /\ \E p \in Platforms : hist[w].outcome[p] = "adapter_credits")
        => (stats[w].errors >= 1 /\ stats[w].error_message # "")

\* What the platforms from index i on contribute: the fetched (deduplicated)
\* videos of each platform whose fetch succeeded, in order.
RECURSIVE FetchedFrom(_, _, _)
FetchedFrom(groups, i, outcome) ==
    IF i > Len(groups) THEN <<>>
    ELSE (IF outcome[groups[i].platform] = "ok"
          THEN Deduplicate(feed[groups[i].platform]) ELSE <<>>)
         \o FetchedFrom(groups, i + 1, outcome)

\* C3: a failed fetch of one platform does not abort the cycle, and the
\* videos entering the pipeline are exactly the fetched videos of the
\* platforms that did not fail.
C3_FailureIsolation ==
    \A w \in Procs :
        pc[w] = "pipeline"
        => [k \in 1..Len(all_videos[w]) |-> all_videos[w][k].video]
             = FetchedFrom(by_platform[w], 1, hist[w].outcome)

\* A platform fetched its videos, the next one failed, and the cycle is at
\* the pipeline with the first platform's videos.
C3_Witness ==
    /\ pc["timer"] = "pipeline"
    /\ Len(by_platform["timer"]) = 2
    /\ hist["timer"].outcome[by_platform["timer"][1].platform] = "ok"
    /\ Failed(hist["timer"].outcome[by_platform["timer"][2].platform])
    /\ all_videos["timer"] # <<>>

\* C4: a cycle that follows a cycle with the same adapter results and the
\* same gate outcome, both with a healthy store and DRY_RUN unset, reports
\* processed = 0 and skipped = the results accepted in the first, and adds
\* no row.
C4_SecondRunSkips ==
    \A w \in Procs :
        (/\ pc[w] = "finally"
         /\ prev[w].valid
         /\ ~dry_run
         /\ ~hist[w].store_failed
         /\ ~prev[w].store_failed
         /\ all_videos[w] = prev[w].inputs
         /\ gated[w] = prev[w].gated)
        => /\ stats[w].processed = 0
           /\ stats[w].skipped = Len(prev[w].gated)
           /\ prev[w].stats.processed + prev[w].stats.skipped = Len(prev[w].gated)
           /\ hist[w].inserted = 0

\* The second of two equal healthy cycles has ended; the first stored two
\* results.
C4_Witness ==
    /\ pc["timer"] = "finally"
    /\ prev["timer"].valid
    /\ ~dry_run
    /\ ~hist["timer"].store_failed
    /\ ~prev["timer"].store_failed
    /\ all_videos["timer"] = prev["timer"].inputs
    /\ gated["timer"] = prev["timer"].gated
    /\ prev["timer"].stats.processed = 2
    /\ stats["timer"].skipped = 2

\* C5: the videos table never holds two rows with one external_id, and a
\* store attempt for an external_id already present (found by the
\* exists-check, or answered 409 by the store) increments skipped and
\* nothing else, and adds no row.
C5_OneRowPerExternalId ==
    [][ /\ \A r1 \in videos_table' : \A r2 \in videos_table' :
              r1.external_id = r2.external_id => r1 = r2
        /\ \A w \in Procs :
              (/\ hist'[w].last_store \in {"found", "conflict"}
               /\ gate_i'[w] = gate_i[w] + 1)
              => /\ stats'[w] = [stats[w] EXCEPT !.skipped = @ + 1]
                 /\ videos_table' = videos_table ]_vars

\* The timer's cycle stored one result, and the insert of its other result
\* was answered 409 because another writer stored the id after the
\* exists-check.
C5_Witness ==
    /\ hist["timer"].last_store = "conflict"
    /\ stats["timer"].skipped = 1
    /\ stats["timer"].processed = 1
    /\ Cardinality(videos_table) = 2

\* C6: at no time are two invocations of run_worker_cycle both executing the
\* cycle body.
C6_NoConcurrentCycles ==
    Cardinality({w \in Procs : Running(w)}) <= 1

\* C7: while some invocation of run_worker_cycle is executing,
\* is_parsing_in_progress() returns True.
C7_FlagWhileRunning ==
    (\E w \in Procs : Running(w)) => parsing_in_progress

\* C12: every record the worker builds, and every stored row, has an integer
\* virality_score in 1..10, and is_viral is true exactly when the result's
\* viral_score is >= 1.5.
C12_ScoreRange ==
    /\ \A r \in videos_table : r.virality_score \in 1..10
    /\ \A w \in Procs :
         \A i \in 1..Len(gated[w]) :
           LET r == Record(all_videos[w], gated[w][i])
           IN  /\ r.virality_score \in 1..10
               /\ r.is_viral <=> (gated[w][i].key >= 1500000)

\* A cycle stored a row whose scaled score was cut to 10 and a row whose
\* scaled score lies inside the range.
C12_Witness ==
    /\ \E r \in videos_table : r.virality_score = 10 /\ r.is_viral
    /\ \E r \in videos_table : r.virality_score = 6
    /\ \E i \in 1..Len(gated["timer"]) : gated["timer"][i].key * 25 > 100000000

\* C14: run_worker_cycle raises no exception, whatever fails: no cycle ends
\* by raising.
C14_NeverThrows ==
    \A w \in Procs : ~hist[w].raised

\* The sources row with the given id, as the cycle loaded it.
SourceById(id) == {i \in 1..Len(sources) : sources[i].id = id}

\* The source_id of the record is the id of an active source whose platform
\* maps to the collector platform of the record's video.
SourceMatches(record) ==
    \E i \in SourceById(record.source_id) :
      /\ sources[i].status = "active"
      /\ PlatformToCollector(sources[i].platform) = record.external_id[1]

\* C15: every record the worker builds or inserts carries the id of a source
\* that was active when the cycle loaded its sources and whose platform maps
\* to the collector platform the video was fetched for.
C15_SourceOfRecord ==
    /\ \A r \in videos_table : SourceMatches(r)
    /\ \A w \in Procs :
         \A i \in 1..Len(gated[w]) : SourceMatches(Record(all_videos[w], gated[w][i]))

\* Rows of two platforms were stored, each with the id of its own source.
C15_Witness ==
    \E r1 \in videos_table, r2 \in videos_table :
      /\ r1.source_id # r2.source_id
      /\ r1.external_id[1] # r2.external_id[1]
      /\ all_videos["timer"][1].src # r2.source_id

\* The store has no topics, or no source with status active.
ConfigMissing ==
    \/ topics = <<>>
    \/ \A i \in 1..Len(sources) : sources[i].status # "active"

\* C16: with no topics or no active source the cycle has all counters zero,
\* fetches from no adapter and neither reads nor writes the videos table.
C16_ZeroStatsOnMissingConfig ==
    ConfigMissing =>
      \A w \in Procs :
        /\ stats[w] = ZeroStats
        /\ hist[w].outcome = NoOutcome
        /\ hist[w].last_store = "none"
        /\ hist[w].inserted = 0
        /\ all_videos[w] = <<>>
        /\ videos_table = {}

\* A cycle returned on a store with topics but only inactive sources, one
\* of which has a URL that identifies a channel.
C16_Witness ==
    /\ ConfigMissing
    /\ topics # <<>>
    /\ \E i \in 1..Len(sources) : sources[i].ident
    /\ pc["timer"] = "finally"
    /\ ~hist["timer"].raised

\* C18: under DRY_RUN no step of a cycle changes the videos table, and the
\* exists-check of an accepted result that is not stored counts it in
\* processed, and in viral when it is viral.
C18_DryRunNoInsert ==
    [][dry_run =>
         /\ videos_table' = videos_table
         /\ \A w \in Procs :
              (/\ pc[w] = "exists"
               /\ <<pc'[w], gate_i'[w]>> # <<pc[w], gate_i[w]>>
               /\ hist'[w].last_store = "absent") =>
                LET record == Record(all_videos[w], gated[w][gate_i[w]])
                IN  /\ pc'[w] # "insert"
                    /\ stats'[w].processed = stats[w].processed + 1
                    /\ stats'[w].viral =
                         stats[w].viral + IF record.is_viral THEN 1 ELSE 0]_vars

\* A cycle under DRY_RUN ended after counting two accepted results, both
\* viral, and the table is empty.
C18_Witness ==
    /\ dry_run
    /\ pc["timer"] = "finally"
    /\ stats["timer"].processed >= 2
    /\ stats["timer"].viral = stats["timer"].processed
    /\ hist["timer"].inserted = 0
    /\ videos_table = {}

\* round(viral_score * 2.5) of a viral_score in 1/1000000, to the nearest
\* integer, a half to the even one.
RoundScaled(score) ==
    LET whole == (score * 25) \div 10000000
        rest == (score * 25) % 10000000
    IN  IF rest > 5000000 \/ (rest = 5000000 /\ whole % 2 = 1)
        THEN whole + 1
        ELSE whole

\* C22: the virality_score of the record built for an accepted result is
\* clamp(round(viral_score * 2.5), 1, 10).
C22_RoundedScore ==
    \A w \in Procs :
      \A i \in 1..Len(gated[w]) :
        Record(all_videos[w], gated[w][i]).virality_score
          = Min(10, Max(1, RoundScaled(gated[w][i].key)))

\* C26: the list a cycle passes to run_viral_pipeline holds no two videos,
\* of one platform or of two, that the deduplicator treats as duplicates.
C26_MergedDeduplicated ==
    \A w \in Procs :
      pc[w] = "pipeline" =>
        \A i \in 1..Len(all_videos[w]) : \A j \in 1..Len(all_videos[w]) :
          i < j => ~IsRepost(all_videos[w][j].video, all_videos[w][i].video)

\* The platform fetches of w's cycle that raised.
FailedFetches(w) ==
    {p \in Platforms :
       /\ hist[w].outcome[p] # "none"
       /\ AsyncioRun(w, p, hist[w].outcome[p]).raised # "none"}

\* The gate results of w's cycle handled so far.
Handled(w) ==
    IF pc[w] \in {"exists", "insert"} THEN gate_i[w] - 1 ELSE Len(gated[w])

\* C28: every gate result increments exactly one counter: skipped when its
\* external_id exists or the insert is answered by a conflict, errors when
\* the store fails otherwise, processed (and viral if it is viral)
\* otherwise; so processed + skipped + errors less the failed fetches is the
\* number of results handled, at the end all of them, and viral <= processed.
C28_OneCounterPerResult ==
    /\ [](\A w \in Procs :
            /\ stats[w].processed + stats[w].skipped + stats[w].errors
                 - Cardinality(FailedFetches(w)) = Handled(w)
            /\ stats[w].viral <= stats[w].processed)
    /\ [][\A w \in Procs :
            gate_i'[w] = gate_i[w] + 1 =>
              LET is_viral == Record(all_videos[w], gated[w][gate_i[w]]).is_viral
                  last == hist'[w].last_store
              IN  stats'[w] =
                    IF last \in {"found", "conflict"}
                    THEN [stats[w] EXCEPT !.skipped = @ + 1]
                    ELSE IF last = "failed"
                    THEN [stats[w] EXCEPT !.errors = @ + 1]
                    ELSE [stats[w] EXCEPT !.processed = @ + 1,
                                          !.viral = IF is_viral THEN @ + 1 ELSE @]]_vars

\* A cycle ended after the store failed on its first result and answered
\* the insert of its second result by a conflict: one error, one skipped.
C28_Witness ==
    /\ pc["timer"] = "finally"
    /\ Len(gated["timer"]) = 2
    /\ hist["timer"].last_store = "conflict"
    /\ stats["timer"].skipped = 1
    /\ stats["timer"].errors = 1
    /\ FailedFetches("timer") = {}

\* C29: whenever no invocation of run_worker_cycle is executing,
\* is_parsing_in_progress() is False.
C29_FlagResetWhenIdle ==
    (\A w \in Procs : ~Running(w)) => ~parsing_in_progress

\* The second cycle ended with an exception and nothing is executing.
C29_Witness ==
    /\ \A w \in Procs : ~Running(w)
    /\ calls["timer"] = 2
    /\ hist["timer"].raised
    /\ prev["timer"].valid
    /\ ~parsing_in_progress

\* C30: every record the worker inserts has is_viral = true and
\* virality_score >= 6, and the viral counter of a cycle equals its
\* processed counter.
C30_AcceptedAreViral ==
    /\ \A r \in videos_table : r.is_viral /\ r.virality_score >= 6
    /\ \A w \in Procs : stats[w].viral = stats[w].processed

\* A cycle ended after inserting two results, one with the lowest score a
\* gate result can have.
C30_Witness ==
    /\ pc["timer"] = "finally"
    /\ ~dry_run
    /\ hist["timer"].inserted = 2
    /\ stats["timer"].viral = 2
    /\ \E r \in videos_table : r.virality_score = 6 /\ r.is_viral

----------------------------------------------------------------------------
(* Claims about deduplicate *)

\* C9: deduplicate is idempotent: deduplicating its own output returns the
\* same list, same videos in the same order.
C9_DedupIdempotent ==
    dd_pc = "twice" => dd_again = dd_result

\* C9 witness: a run where the first pass dropped something and the second
\* pass has been applied to a list of two or more survivors.
C9_Witness ==
    /\ dd_pc = "twice"
    /\ Len(dd_result) >= 2
    /\ Len(dd_result) < Len(dd_videos)

DuplicateOf(v, e) == IsRepost(v, e)

\* The order-preserving greedy filter: a video is dropped exactly when it
\* duplicates a video emitted before it.
RECURSIVE GreedyFilter(_, _, _)
GreedyFilter(videos, i, emitted) ==
    IF i > Len(videos) THEN emitted
    ELSE IF \E k \in 1..Len(emitted) : DuplicateOf(videos[i], emitted[k])
    THEN GreedyFilter(videos, i + 1, emitted)
    ELSE GreedyFilter(videos, i + 1, Append(emitted, videos[i]))

\* C11: deduplicate equals the order-preserving greedy filter: a video is
\* dropped only if it duplicates a video kept in the output, and a video
\* whose only match was itself dropped is kept.
C11_GreedyReference ==
    dd_pc # "in" => dd_result = GreedyFilter(dd_videos, 1, <<>>)

----------------------------------------------------------------------------
(* Claims about apply_quality_gate *)

\* The results with the given reasons.
WithReason(reasons) ==
    {k \in 1..Len(g_result) : g_result[k].quality_decision_reason \in reasons}

\* The positions of the result that carry input item i.
ResultsOf(i) ==
    {k \in 1..Len(g_result) : g_result[k].video.video_id = g_items[i].video.video_id}

\* C13: apply_quality_gate returns an empty list only when its input is
\* empty.
C13_GateNeverEmpty ==
    (g_pc = "done" /\ g_items # <<>>) => g_result # <<>>

\* C19: every item with quality_score >= 7.0 is in the output with reason
\* accepted_high_quality, no item with quality_score < 6.2 is in the output,
\* and every item accepted as borderline or by fallback fill has
\* 6.2 <= quality_score < 7.0.
C19_GateZones ==
    g_pc = "done" =>
      \A i \in 1..Len(g_items) :
        LET q == QualityScore(g_items[i].key)
        IN  /\ q >= 70000000 =>
                 /\ Cardinality(ResultsOf(i)) = 1
                 /\ \A k \in ResultsOf(i) :
                      g_result[k].quality_decision_reason = "accepted_high_quality"
            /\ q < 62000000 => ResultsOf(i) = {}
            /\ \A k \in ResultsOf(i) :
                 g_result[k].quality_decision_reason # "accepted_high_quality"
                   => (62000000 <= q /\ q < 70000000)

\* The gate returned high-quality, borderline and fallback items and left
\* out a low item whose quality_score is just below 6.2.
C19_Witness ==
    /\ g_pc = "done"
    /\ WithReason({"accepted_high_quality"}) # {}
    /\ WithReason({"accepted_borderline_engagement"}) # {}
    /\ WithReason({"fallback_fill"}) # {}
    /\ \E i \in 1..Len(g_items) : g_items[i].key = 2479999 /\ ResultsOf(i) = {}

\* The input items of the borderline zone that were not accepted directly:
\* the borderline pool.
PoolItems ==
    {i \in 1..Len(g_items) :
       /\ 62000000 <= QualityScore(g_items[i].key)
       /\ QualityScore(g_items[i].key) < 70000000
       /\ \A k \in ResultsOf(i) : g_result[k].quality_decision_reason = "fallback_fill"}

DirectReasons ==
    {"accepted_high_quality", "accepted_borderline_high_viral",
     "accepted_borderline_engagement"}

\* C20: with a items accepted directly and p items in the borderline pool,
\* exactly min(15 - a, p) pool items are appended with reason fallback_fill
\* when a < 15 and none when a >= 15; they are appended in descending
\* viral_score order and no pool item left out has a higher viral_score than
\* one that was taken; an output with a fallback_fill item has at most 15
\* items.
C20_FallbackFill ==
    g_pc = "done" =>
      LET a == Cardinality(WithReason(DirectReasons))
          p == Cardinality(PoolItems)
          fill == WithReason({"fallback_fill"})
      IN  /\ Cardinality(fill) = IF a < 15 THEN Min(15 - a, p) ELSE 0
          /\ fill = (a + 1)..Len(g_result)
          /\ \A k \in fill : k + 1 \in fill => g_result[k].key >= g_result[k + 1].key
          /\ \A i \in PoolItems :
               \/ Cardinality(ResultsOf(i)) = 1
               \/ /\ ResultsOf(i) = {}
                  /\ \A k \in fill : g_result[k].key >= g_items[i].key
          /\ fill # {} => Len(g_result) <= 15

\* The fallback fill took some pool items of different scores after items
\* accepted directly, and left a pool item out.
C20_Witness ==
    /\ g_pc = "done"
    /\ WithReason(DirectReasons) # {}
    /\ \E k, l \in WithReason({"fallback_fill"}) : g_result[k].key > g_result[l].key
    /\ \E i \in PoolItems : ResultsOf(i) = {}

\* C21: a borderline video outside the top 30% of the batch is accepted
\* with reason accepted_borderline_engagement exactly when
\* (likes + 2*comments + 3*shares) / max(views, 1) > 0.08; otherwise it is
\* in the borderline pool.
C21_WeightedEngagement ==
    g_pc = "done" =>
      \A i \in 1..Len(g_items) :
        LET q == QualityScore(g_items[i].key)
            v == g_items[i].video
        IN  (62000000 <= q /\ q < 70000000 /\ i \notin Top30Indices(g_items)) =>
              IF WeightedEngagement(v) * 100 > 8 * Max(v.views, 1)
              THEN \E k \in ResultsOf(i) :
                     g_result[k].quality_decision_reason = "accepted_borderline_engagement"
              ELSE i \in PoolItems

----------------------------------------------------------------------------
(* Claims about the adapters *)

\* C17: one call of fetch_from_sources returns at most
\* MAX_RESULTS_PER_PLATFORM videos, whatever the number of channels and of
\* videos the platform has.
C17_AdapterBound ==
    ad_pc = "done" => ad_result <= MAX_RESULTS_PER_PLATFORM

\* The failed calls of the fetcher so far.
FailedAttempts == {k \in 1..Len(rt_outcomes) : rt_outcomes[k] = -1}

\* C27: _safe_fetch calls the fetcher at most retry_count times and not
\* again after a call that succeeded; it has slept RETRY_DELAY_SECONDS * k
\* after the k-th failed call, except after the last of retry_count calls;
\* it returns what the first successful call returned, or the empty list
\* once retry_count calls have failed.
C27_SafeFetch ==
    /\ Len(rt_outcomes) <= rt_retry_count
    /\ \A k \in 1..(Len(rt_outcomes) - 1) : rt_outcomes[k] = -1
    /\ rt_sleeps = [k \in 1..Min(Cardinality(FailedAttempts), Max(rt_retry_count - 1, 0))
                      |-> rt_delay * k]
    /\ rt_pc = "returned" =>
         IF FailedAttempts = 1..Len(rt_outcomes)
         THEN Len(rt_outcomes) = rt_retry_count /\ rt_result = 0
         ELSE rt_result = rt_outcomes[Len(rt_outcomes)]

\* Two calls failed, each followed by its sleep, and the third returned
\* videos that _safe_fetch returned.
C27_Witness ==
    /\ rt_pc = "returned"
    /\ rt_sleeps = <<rt_delay, rt_delay * 2>>
    /\ Len(rt_outcomes) = 3
    /\ rt_result > 0

====
